---- MODULE Spec2Model ----
(***************************************************************************)
(* Model of the UltraViolet permission generators                          *)
(* (ultraviolet_permissions/generators.py) and of the read rules of the    *)
(* policy tables (ultraviolet_permissions/policies.py).                    *)
(*                                                                         *)
(* Python strings are sequences of one-character strings, so that          *)
(* str.replace and str.lower are computed and not assumed.  A call either  *)
(* returns a value or raises; both outcomes are recorded in `result`.      *)
(***************************************************************************)
EXTENDS Naturals, Sequences, FiniteSets

VARIABLES record, identity, op, arg, result

vars == <<record, identity, op, arg, result>>

\* Bounds of the model.
MaxChunks == 5
MaxDescs == 2

-----------------------------------------------------------------------------
\* Strings

P_OPEN == <<"<", "p", ">">>
P_CLOSE == <<"<", "/", "p", ">">>

\* The characters of the string constants that occur in the source and in the
\* records of the model.
Chars(s) ==
    CASE s = "curator" -> <<"c", "u", "r", "a", "t", "o", "r">>
      [] s = "Curator" -> <<"C", "u", "r", "a", "t", "o", "r">>
      [] s = "viewer" -> <<"v", "i", "e", "w", "e", "r">>
      [] s = "Viewer" -> <<"V", "i", "e", "w", "e", "r">>
      [] s = "depositor" -> <<"d", "e", "p", "o", "s", "i", "t", "o", "r">>
      [] s = "restricted_data_user" ->
            <<"r", "e", "s", "t", "r", "i", "c", "t", "e", "d", "_",
              "d", "a", "t", "a", "_", "u", "s", "e", "r">>
      [] s = "public_viewer" ->
            <<"p", "u", "b", "l", "i", "c", "_", "v", "i", "e", "w", "e", "r">>
      [] s = "nyu" -> <<"n", "y", "u">>
      [] s = "<p>" -> P_OPEN
      [] s = "</p>" -> P_CLOSE
      [] OTHER -> <<s>>

\* str.lower(), character by character (the upper-case letters of the model).
LowerChar(c) ==
    CASE c = "C" -> "c"
      [] c = "V" -> "v"
      [] c = "D" -> "d"
      [] c = "R" -> "r"
      [] c = "P" -> "p"
      [] OTHER -> c

Lower(s) == [i \in 1..Len(s) |-> LowerChar(s[i])]

\* old occurs in s at position i
OccursAt(s, old, i) ==
    /\ i + Len(old) - 1 <= Len(s)
    /\ SubSeq(s, i, i + Len(old) - 1) = old

\* `old in s`
Contains(s, old) == \E i \in 1..Len(s) : OccursAt(s, old, i)

RECURSIVE ReplaceFrom(_, _, _)
ReplaceFrom(s, old, i) ==
    IF i > Len(s) THEN <<>>
    ELSE IF OccursAt(s, old, i) THEN ReplaceFrom(s, old, i + Len(old))
    ELSE <<s[i]>> \o ReplaceFrom(s, old, i + 1)

\* A replace that stops after the first occurrence (str.replace(old, "", 1)).
ReplaceFirst(s, old) ==
    IF Contains(s, old)
    THEN LET i == CHOOSE k \in 1..Len(s) :
                     /\ OccursAt(s, old, k)
                     /\ \A j \in 1..(k - 1) : ~OccursAt(s, old, j)
         IN SubSeq(s, 1, i - 1) \o SubSeq(s, i + Len(old), Len(s))
    ELSE s

\* s.replace(old, ""): every non-overlapping occurrence, left to right.
Replace(s, old) == ReplaceFrom(s, old, 1)

\* The two guarded replaces of get_roles and ProprietaryRecordPermissions.needs.
StripMarkup(role) ==
    LET r1 == IF Contains(role, P_OPEN) THEN Replace(role, P_OPEN) ELSE role
    IN IF Contains(r1, P_CLOSE) THEN Replace(r1, P_CLOSE) ELSE r1

-----------------------------------------------------------------------------
\* Needs (identity claims) and call outcomes

Need(method, value) == [method |-> method, value |-> value]

any_user == Need("system_role", <<"any_user">>)
authenticated_user == Need("system_role", <<"authenticated_user">>)
system_process == Need("system_role", <<"system_process">>)
superuser_access == Need("action", <<"superuser-access">>)
RoleNeed(role) == Need("role", role)
UserNeed(u) == Need("id", <<u>>)

NoResult ==
    [kind |-> "none", needs |-> <<>>, roles |-> <<>>, exc |-> "",
     clause |-> "", branch |-> "", allowed |-> FALSE]

ReturnNeeds(ns) == [NoResult EXCEPT !.kind = "return", !.needs = ns]
ReturnRoles(rs) == [NoResult EXCEPT !.kind = "return", !.roles = rs]
ReturnClause(c) == [NoResult EXCEPT !.kind = "return", !.clause = c]
Raise(e) == [NoResult EXCEPT !.kind = "raise", !.exc = e]

\* elasticsearch_dsl Q(name): the clause is identified by the query name.
Q(name) == ReturnClause(name)

-----------------------------------------------------------------------------
\* Records

\* A description entry: `type` is missing, a mapping (with or without "id")
\* or a plain string; `description` is missing or a string.
Entry(typeKind, typeVal, hasDescription, description) ==
    [typeKind |-> typeKind, typeVal |-> typeVal,
     hasDescription |-> hasDescription, description |-> description]

TechInfo(text) == Entry("dict", "technical-info", TRUE, text)

None ==
    [isNone |-> TRUE, hasMetadata |-> FALSE, hasDescs |-> FALSE, descs |-> <<>>,
     hasAccess |-> FALSE, access |-> <<>>, owners |-> <<>>]

\* access is a sequence of <<field, value>> pairs with distinct fields.
Rec(hasMetadata, hasDescs, descs, hasAccess, access, owners) ==
    [isNone |-> FALSE, hasMetadata |-> hasMetadata, hasDescs |-> hasDescs,
     descs |-> descs, hasAccess |-> hasAccess, access |-> access,
     owners |-> owners]

\* `not record`: None, or a mapping without keys.
Falsy(rec) == rec.isNone \/ (~rec.hasMetadata /\ ~rec.hasAccess)

HasKey(access, field) == \E i \in 1..Len(access) : access[i][1] = field

\* mapping.get(field, default)
Get(access, field, default) ==
    IF HasKey(access, field)
    THEN access[CHOOSE i \in 1..Len(access) : access[i][1] = field][2]
    ELSE default

-----------------------------------------------------------------------------
\* generators.py

\* get_roles: the loop over additional_descriptions from entry i on, with the
\* roles collected so far.
RECURSIVE GetRolesLoop(_, _, _, _)
GetRolesLoop(descs, user_role, i, roles) ==
    IF i > Len(descs) THEN ReturnRoles(roles)
    ELSE LET d == descs[i] IN
         IF d.typeKind = "missing" THEN Raise("AttributeError")  \* None.get("id")
         ELSE IF d.typeKind = "str" THEN Raise("AttributeError") \* str has no .get
         ELSE IF d.typeVal = "technical-info"
         THEN IF ~d.hasDescription THEN Raise("TypeError")       \* "<p>" in None
              ELSE LET role == StripMarkup(d.description) IN
                   IF Lower(role) = Chars(user_role)
                   THEN GetRolesLoop(descs, user_role, i + 1, Append(roles, role))
                   ELSE GetRolesLoop(descs, user_role, i + 1, roles)
         ELSE GetRolesLoop(descs, user_role, i + 1, roles)

get_roles(rec, user_role) ==
    IF rec.isNone THEN Raise("AttributeError")               \* None.get("metadata")
    ELSE IF ~rec.hasMetadata THEN Raise("AttributeError")    \* None.get(...)
    ELSE GetRolesLoop(IF rec.hasDescs THEN rec.descs ELSE <<>>, user_role, 1, <<>>)

\* Depositor, Viewer, RestrictedDataUser, PublicViewer, Curator: needs()
RoleGeneratorNeeds(rec, user_role) ==
    LET got == get_roles(rec, user_role) IN
    IF got.kind = "raise" THEN got
    ELSE IF Len(got.roles) = 0 THEN ReturnNeeds(<<>>)
    ELSE ReturnNeeds([i \in 1..Len(got.roles) |-> RoleNeed(got.roles[i])])

\* role.name, where role is a str: a str has no attribute `name`.
StrName(role) == Raise("AttributeError")

\* ProprietaryRecordPermissions.needs: the loop from entry i on.  The entry's
\* `type` itself, not its "id", is compared with "technical-info".
RECURSIVE ProprietaryLoop(_, _)
ProprietaryLoop(descs, i) ==
    IF i > Len(descs) THEN ReturnNeeds(<<>>)
    ELSE LET d == descs[i] IN
         IF d.typeKind = "str" /\ d.typeVal = "technical-info"
         THEN IF ~d.hasDescription THEN Raise("TypeError")   \* "<p>" in None
              ELSE LET name == StrName(StripMarkup(d.description)) IN
                   IF name.kind = "raise" THEN name
                   ELSE ReturnNeeds(<<RoleNeed(name.roles)>>)
         ELSE ProprietaryLoop(descs, i + 1)

ProprietaryRecordPermissions_needs(rec) ==
    IF rec.isNone THEN ReturnNeeds(<<authenticated_user>>)
    ELSE IF ~rec.hasMetadata THEN Raise("AttributeError")
    ELSE ProprietaryLoop(IF rec.hasDescs THEN rec.descs ELSE <<>>, 1)

ProprietaryRecordPermissions_query_filter == Q("can_all")

AdminSuperUser_needs == ReturnNeeds(<<superuser_access>>)

\* An empty list is returned for an identity that is no superuser.
AdminSuperUser_query_filter(provides) ==
    IF superuser_access \in provides THEN Q("match_all") ELSE ReturnClause("[]")

\* Generators of the host libraries that the policy tables use.  The records
\* of the model carry no secret links and no communities.
HostGeneratorNeeds(gen, rec) ==
    CASE gen = "AnyUser" -> ReturnNeeds(<<any_user>>)
      [] gen = "AuthenticatedUser" -> ReturnNeeds(<<authenticated_user>>)
      [] gen = "SystemProcess" -> ReturnNeeds(<<system_process>>)
      [] gen = "RecordOwners" ->
            IF rec.isNone THEN ReturnNeeds(<<authenticated_user>>)
            ELSE ReturnNeeds([i \in 1..Len(rec.owners) |-> UserNeed(rec.owners[i])])
      [] OTHER -> ReturnNeeds(<<>>)

\* gen.needs(record=rec) for a generator named by its class.
GeneratorNeeds(gen, rec) ==
    CASE gen = "Depositor" -> RoleGeneratorNeeds(rec, "depositor")
      [] gen = "Viewer" -> RoleGeneratorNeeds(rec, "viewer")
      [] gen = "RestrictedDataUser" -> RoleGeneratorNeeds(rec, "restricted_data_user")
      [] gen = "PublicViewer" -> RoleGeneratorNeeds(rec, "public_viewer")
      [] gen = "Curator" -> RoleGeneratorNeeds(rec, "curator")
      [] gen = "ProprietaryRecordPermissions" -> ProprietaryRecordPermissions_needs(rec)
      [] gen = "AdminSuperUser" -> AdminSuperUser_needs
      [] OTHER -> HostGeneratorNeeds(gen, rec)

\* record.get('access', {}).get(field, "open"): an open default.
AccessFieldOpenDefault(rec, field) ==
    Get(IF rec.hasAccess THEN rec.access ELSE <<>>, field, "open")

\* record.get('access', {}).get(self.field, "restricted")
AccessField(rec, field) ==
    Get(IF rec.hasAccess THEN rec.access ELSE <<>>, field, "restricted")

\* The delegate's needs() is called without arguments: its record is None.
Delegate(gens, branch) ==
    IF Len(gens) = 0 THEN [Raise("IndexError") EXCEPT !.branch = branch]
    ELSE [GeneratorNeeds(gens[1], None) EXCEPT !.branch = branch]

\* IfRestricted.needs with the two branches exchanged.
IfRestricted_needs_swapped(field, then_, else_, rec) ==
    IF Falsy(rec) THEN ReturnNeeds(<<>>)
    ELSE IF AccessField(rec, field) = "restricted"
    THEN Delegate(else_, "else")
    ELSE Delegate(then_, "then")

IfRestricted_needs(field, then_, else_, rec) ==
    IF Falsy(rec) THEN ReturnNeeds(<<>>)
    ELSE IF AccessField(rec, field) = "restricted"
    THEN Delegate(then_, "then")
    ELSE Delegate(else_, "else")

IfRestricted_query_filter == Q("match_all")

-----------------------------------------------------------------------------
\* policies.py: NYURecordPermissionPolicy and DataUseRecordPermissionPolicy

can_manage(policy) == <<"RecordOwners", "SystemProcess", "AdminSuperUser">>

can_view(policy) ==
    IF policy = "NYURecordPermissionPolicy"
    THEN can_manage(policy) \o <<"SecretLinks", "Viewer", "Depositor">>
    ELSE can_manage(policy) \o <<"SecretLinks", "RestrictedDataUser">>

can_all(policy) == <<"AnyUser", "SystemProcess">>

\* The field of the IfRestricted generator of can_read and can_read_files.
ReadField(action) == IF action = "can_read" THEN "record" ELSE "files"

\* The needs of the one generator of can_read / can_read_files.
PolicyNeeds(policy, action, rec) ==
    IfRestricted_needs(ReadField(action), can_view(policy), can_all(policy), rec)

Range(s) == {s[i] : i \in 1..Len(s)}

\* The host's decision: the needs of the action's generators, to which the
\* host always adds superuser-access, must meet what the identity provides.
Allows(needs, provides) == (Range(needs) \cup {superuser_access}) \cap provides # {}

PolicyCheck(policy, action, rec, provides) ==
    LET got == PolicyNeeds(policy, action, rec) IN
    IF got.kind = "raise" THEN got
    ELSE [got EXCEPT !.allowed = Allows(got.needs, provides)]

-----------------------------------------------------------------------------
\* The inputs: records, identities and arguments

NoArg ==
    [user_role |-> "", field |-> "", then_ |-> <<>>, else_ |-> <<>>,
     policy |-> "", action |-> ""]

RoleClasses ==
    {"depositor", "viewer", "restricted_data_user", "public_viewer", "curator"}

RoleGenerators ==
    {"Depositor", "Viewer", "RestrictedDataUser", "PublicViewer", "Curator"}

RoleClassOf(gen) ==
    CASE gen = "Depositor" -> "depositor"
      [] gen = "Viewer" -> "viewer"
      [] gen = "RestrictedDataUser" -> "restricted_data_user"
      [] gen = "PublicViewer" -> "public_viewer"
      [] gen = "Curator" -> "curator"

Policies == {"NYURecordPermissionPolicy", "DataUseRecordPermissionPolicy"}
ReadActions == {"can_read", "can_read_files"}
Fields == {"record", "files"}
AccessValues == {"restricted", "open", "public"}

\* The generators tried as the head of a branch of IfRestricted.
BranchGenerators ==
    {"RecordOwners", "AnyUser", "AdminSuperUser", "Curator",
     "ProprietaryRecordPermissions"}

RECURSIVE Concat(_)
Concat(chunks) ==
    IF chunks = <<>> THEN <<>> ELSE Chars(Head(chunks)) \o Concat(Tail(chunks))

SeqsUpTo(S, n) == UNION {[1..k -> S] : k \in 0..n}

\* Descriptions made of paragraph markers and role text.
TextChunks == {"<p>", "</p>", "curator", "Curator"}
Texts == {Concat(cs) : cs \in SeqsUpTo(TextChunks, MaxChunks)}

\* The mappings under "access": each field absent or with a value.
AccessMaps ==
    {<<>>}
    \cup {<<<<f, v>>>> : f \in Fields, v \in AccessValues}
    \cup {<<<<"record", v>>, <<"files", w>>>> : v \in AccessValues, w \in AccessValues}

\* What an identity provides.
Identities ==
    { {any_user},
      {any_user, authenticated_user, UserNeed("u1")},
      {any_user, authenticated_user, UserNeed("u2")},
      {any_user, authenticated_user, UserNeed("u2"), RoleNeed(Chars("viewer"))},
      {any_user, authenticated_user, UserNeed("u2"),
       RoleNeed(Chars("restricted_data_user"))},
      {any_user, authenticated_user, UserNeed("u3"), superuser_access},
      {system_process} }

Anonymous == {any_user}

\* Entries of every shape, with short descriptions.
EntryTexts == {Chars("curator"), Chars("<p>") \o Chars("Viewer") \o Chars("</p>")}

Entries ==
    {Entry("dict", id, TRUE, t) : id \in {"technical-info", "abstract"}, t \in EntryTexts}
    \cup {Entry("dict", "technical-info", FALSE, <<>>)}
    \cup {Entry("dict", "", TRUE, t) : t \in EntryTexts}
    \cup {Entry("missing", "", TRUE, t) : t \in EntryTexts}
    \cup {Entry("missing", "", FALSE, <<>>)}
    \cup {Entry("str", "technical-info", TRUE, t) : t \in EntryTexts}
    \cup {Entry("str", "technical-info", FALSE, <<>>)}

\* Role-bearing descriptions of the records the policies are tried on.
PolicyDescs ==
    {<<>>, <<TechInfo(Chars("curator"))>>,
     <<TechInfo(Chars("<p>") \o Chars("Viewer") \o Chars("</p>"))>>,
     <<TechInfo(Chars("viewer"))>>,
     <<TechInfo(Chars("restricted_data_user"))>>}

Start(rec, provides) ==
    /\ record = rec
    /\ identity = provides
    /\ op = "none"
    /\ arg = NoArg
    /\ result = NoResult

\* Records with access settings and owners, and the identities that ask.
Init ==
    \E rec \in {None, Rec(FALSE, FALSE, <<>>, FALSE, <<>>, <<>>)}
               \cup {Rec(TRUE, TRUE, ds, TRUE, am, ow) :
                       ds \in PolicyDescs, am \in AccessMaps, ow \in {<<>>, <<"u1">>}}
               \cup {Rec(TRUE, TRUE, ds, FALSE, <<>>, <<"u1">>) : ds \in PolicyDescs},
       provides \in Identities :
        Start(rec, provides)

\* Records of every metadata shape.
InitRoles ==
    \E rec \in {None, Rec(FALSE, FALSE, <<>>, FALSE, <<>>, <<>>),
                Rec(FALSE, FALSE, <<>>, TRUE, <<<<"record", "open">>>>, <<>>),
                Rec(TRUE, FALSE, <<>>, FALSE, <<>>, <<>>)}
               \cup {Rec(TRUE, TRUE, ds, FALSE, <<>>, <<>>) : ds \in SeqsUpTo(Entries, MaxDescs)} :
        Start(rec, Anonymous)

\* Records with one role-bearing description of any text.
InitText ==
    \E t \in Texts :
        Start(Rec(TRUE, TRUE, <<TechInfo(t)>>, FALSE, <<>>, <<>>), Anonymous)

-----------------------------------------------------------------------------
\* The operations

Call(name, a, r) ==
    /\ op' = name
    /\ arg' = a
    /\ result' = r
    /\ UNCHANGED <<record, identity>>

GetRoles ==
    \E user_role \in RoleClasses :
        Call("get_roles", [NoArg EXCEPT !.user_role = user_role],
             get_roles(record, user_role))

RoleNeeds ==
    \E gen \in RoleGenerators :
        Call(gen, NoArg, GeneratorNeeds(gen, record))

ProprietaryNeeds ==
    Call("ProprietaryRecordPermissions", NoArg,
         ProprietaryRecordPermissions_needs(record))

ProprietaryQueryFilter ==
    Call("ProprietaryRecordPermissions.query_filter", NoArg,
         ProprietaryRecordPermissions_query_filter)

AdminSuperUserNeeds == Call("AdminSuperUser", NoArg, AdminSuperUser_needs)

AdminSuperUserQueryFilter ==
    Call("AdminSuperUser.query_filter", NoArg, AdminSuperUser_query_filter(identity))

IfRestrictedNeeds ==
    \E field \in Fields, A \in BranchGenerators, B \in BranchGenerators :
        /\ A # B
        /\ Call("IfRestricted",
                [NoArg EXCEPT !.field = field, !.then_ = <<A>>, !.else_ = <<B>>],
                IfRestricted_needs(field, <<A>>, <<B>>, record))

IfRestrictedQueryFilter ==
    Call("IfRestricted.query_filter", NoArg, IfRestricted_query_filter)

\* The host decides a read action of a policy for the identity.
Permission ==
    \E policy \in Policies, action \in ReadActions :
        Call("Permission", [NoArg EXCEPT !.policy = policy, !.action = action],
             PolicyCheck(policy, action, record, identity))

Next ==
    \/ IfRestrictedNeeds
    \/ IfRestrictedQueryFilter
    \/ AdminSuperUserNeeds
    \/ AdminSuperUserQueryFilter
    \/ ProprietaryQueryFilter
    \/ Permission

NextRoles ==
    \/ GetRoles
    \/ RoleNeeds
    \/ ProprietaryNeeds

Spec == Init /\ [][Next]_vars

SpecRoles == InitRoles /\ [][NextRoles]_vars

SpecText == InitText /\ [][NextRoles]_vars

-----------------------------------------------------------------------------
\* Properties of IfRestricted and of the read rules (checked under Spec)

DataUse == "DataUseRecordPermissionPolicy"

\* The value of the record's access field that the call was about.
FieldPresent(rec, field) == rec.hasAccess /\ HasKey(rec.access, field)

\* C1: for a non-empty record whose access field is set, IfRestricted.needs
\* returns the needs of then_[0] evaluated on that record when the field is
\* "restricted", and the needs of else_[0] evaluated on that record otherwise.
CexC1_DelegatesOnSameRecord ==
    (op = "IfRestricted" /\ ~Falsy(record) /\ FieldPresent(record, arg.field)) =>
        LET chosen == IF Get(record.access, arg.field, "") = "restricted"
                      THEN arg.then_[1] ELSE arg.else_[1]
        IN [result EXCEPT !.branch = ""] = GeneratorNeeds(chosen, record)

\* C2: under DataUseRecordPermissionPolicy.can_read_files an anonymous
\* identity reads the files of a record without role-bearing descriptions
\* when access.files is "open" and does not when it is "restricted".
ThmC2_AnonymousReadFiles ==
    (/\ op = "Permission"
     /\ arg.policy = DataUse
     /\ arg.action = "can_read_files"
     /\ ~Falsy(record)
     /\ record.descs = <<>>
     /\ identity = Anonymous
     /\ FieldPresent(record, "files")) =>
        /\ result.kind = "return"
        /\ Get(record.access, "files", "") = "open" => result.allowed
        /\ Get(record.access, "files", "") = "restricted" => ~result.allowed

WitC2_AnonymousDeniedRestrictedFiles ==
    /\ op = "Permission"
    /\ arg.policy = DataUse
    /\ arg.action = "can_read_files"
    /\ ~Falsy(record)
    /\ record.descs = <<>>
    /\ identity = Anonymous
    /\ FieldPresent(record, "files")
    /\ Get(record.access, "files", "") = "restricted"
    /\ result.kind = "return"
    /\ ~result.allowed

\* C3: for a non-empty record without an access mapping, or whose access
\* mapping lacks the field, IfRestricted.needs takes the restricted path: it
\* returns what the head of then_ returns, never what the head of else_ does.
ThmC3_FailClosedDefault ==
    (op = "IfRestricted" /\ ~Falsy(record) /\ ~FieldPresent(record, arg.field)) =>
        /\ result.branch = "then"
        /\ [result EXCEPT !.branch = ""] = GeneratorNeeds(arg.then_[1], None)

WitC3_MissingFieldTakesThen ==
    /\ op = "IfRestricted"
    /\ ~Falsy(record)
    /\ record.hasAccess
    /\ ~HasKey(record.access, arg.field)
    /\ arg.then_ = <<"AdminSuperUser">>
    /\ arg.else_ = <<"AnyUser">>
    /\ result.needs = <<superuser_access>>

\* C8: ProprietaryRecordPermissions.query_filter returns the "match all"
\* clause, the clause that IfRestricted.query_filter returns.
CexC8_ProprietaryFilterMatchesAll ==
    op = "ProprietaryRecordPermissions.query_filter" =>
        /\ result.clause = "match_all"
        /\ result = IfRestricted_query_filter

\* The role claims that the record's descriptions name.
RecordRoleNeeds(rec) ==
    UNION {Range(GeneratorNeeds(g, rec).needs) : g \in RoleGenerators}

\* C10: under both policies, for a record whose access field is "restricted"
\* or unset, an authenticated identity that is no owner of the record, no
\* superuser, no system process and holds none of the record's roles is not
\* granted can_read (field "record") nor can_read_files (field "files").
CexC10_AuthenticatedAloneCannotReadRestricted ==
    (/\ op = "Permission"
     /\ ~Falsy(record)
     /\ AccessField(record, ReadField(arg.action)) = "restricted"
     /\ authenticated_user \in identity
     /\ superuser_access \notin identity
     /\ system_process \notin identity
     /\ \A i \in 1..Len(record.owners) : UserNeed(record.owners[i]) \notin identity
     /\ identity \cap RecordRoleNeeds(record) = {}) =>
        /\ result.kind = "return"
        /\ ~result.allowed

-----------------------------------------------------------------------------
\* Properties of role extraction on records of every shape (SpecRoles)

WellFormed(d) == d.typeKind = "dict" /\ d.typeVal # "" /\ d.hasDescription
Malformed(d) == d.typeKind = "missing" \/ ~d.hasDescription

AllEntries(rec, P(_)) == \A i \in 1..Len(rec.descs) : P(rec.descs[i])

RoleBearing(d) == WellFormed(d) /\ d.typeVal = "technical-info"

\* C4: ProprietaryRecordPermissions.needs returns the authenticated-user
\* claim without a record; for a record with a "technical-info" entry it
\* returns one role claim named by the stripped text of the first such
\* entry; it returns the empty list only when there is no such entry.
CexC4_ProprietaryRoleClaim ==
    op = "ProprietaryRecordPermissions" =>
        IF record.isNone THEN result = ReturnNeeds(<<authenticated_user>>)
        ELSE (record.hasMetadata /\ record.hasDescs /\ AllEntries(record, WellFormed)) =>
             LET bearing == {i \in 1..Len(record.descs) : RoleBearing(record.descs[i])}
                 first == CHOOSE i \in bearing : \A j \in bearing : i <= j
             IN IF bearing = {} THEN result = ReturnNeeds(<<>>)
                ELSE result =
                       ReturnNeeds(<<RoleNeed(StripMarkup(record.descs[first].description))>>)

\* C6: for a record without metadata, or whose metadata has no
\* additional_descriptions, get_roles and the needs() of every role-based
\* generator return an empty result and raise nothing.
CexC6_MissingMetadataIsEmpty ==
    (/\ op \in RoleGenerators \cup {"get_roles", "ProprietaryRecordPermissions"}
     /\ ~record.isNone
     /\ (~record.hasMetadata \/ ~record.hasDescs)) =>
        /\ result.kind = "return"
        /\ result.needs = <<>>
        /\ result.roles = <<>>

RECURSIVE SkipMalformed(_)
SkipMalformed(descs) ==
    IF descs = <<>> THEN <<>>
    ELSE IF Malformed(Head(descs)) THEN SkipMalformed(Tail(descs))
    ELSE <<Head(descs)>> \o SkipMalformed(Tail(descs))

WellFormedOrMalformed(d) == WellFormed(d) \/ Malformed(d)

\* C7: an entry lacking "type" or "description" is skipped: needs() raises
\* nothing and returns what it returns for the record without that entry.
CexC7_MalformedEntrySkipped ==
    (/\ op \in RoleGenerators \cup {"ProprietaryRecordPermissions"}
     /\ ~record.isNone
     /\ record.hasMetadata
     /\ record.hasDescs
     /\ AllEntries(record, WellFormedOrMalformed)
     /\ ~AllEntries(record, WellFormed)) =>
        /\ result.kind = "return"
        /\ result = GeneratorNeeds(op, [record EXCEPT !.descs = SkipMalformed(record.descs)])

-----------------------------------------------------------------------------
\* Properties of the text handling of get_roles (SpecText)

\* The number of positions at which old occurs in s.
Occurrences(s, old) == Cardinality({i \in 1..Len(s) : OccursAt(s, old, i)})

ManyMarkers(s) == Occurrences(s, P_OPEN) > 1 \/ Occurrences(s, P_CLOSE) > 1

IsTextChar(c) == c \notin {"<", "/", "p", ">"}

\* The description without the characters of its paragraph markers.
Unmarked(s) == SelectSeq(s, IsTextChar)

\* The description of the record's single entry.
Description == record.descs[1].description

\* C5: the roles that get_roles returns, and that a per-role generator turns
\* into role claims, are the stripped and case-folded text: the role class.
CexC5_ReturnsNormalizedRole ==
    /\ (op = "get_roles" /\ result.kind = "return") =>
          \A i \in 1..Len(result.roles) : result.roles[i] = Chars(arg.user_role)
    /\ (op \in RoleGenerators /\ result.kind = "return") =>
          \A i \in 1..Len(result.needs) :
              result.needs[i] = RoleNeed(Chars(RoleClassOf(op)))

\* C9 as stated: a description with more than one "<p>" or more than one
\* "</p>" keeps its later markers and so does not match "curator".
CexC9_OnlyFirstMarkerRemoved ==
    (op = "get_roles" /\ arg.user_role = "curator" /\ ManyMarkers(Description)) =>
        result.roles = <<>>

\* C9 as amended: every "<p>" and every "</p>" is removed, so a description
\* with more than one marker matches "curator" exactly when its text
\* without the markers case-folds to "curator", and that text is returned.
ThmC9_EveryMarkerRemoved ==
    (op = "get_roles" /\ arg.user_role = "curator" /\ ManyMarkers(Description)) =>
        /\ result.kind = "return"
        /\ result.roles = IF Lower(Unmarked(Description)) = Chars("curator")
                          THEN <<Unmarked(Description)>> ELSE <<>>

WitC9_TwoParagraphsMatch ==
    /\ op = "get_roles"
    /\ arg.user_role = "curator"
    /\ Description = Concat(<<"<p>", "curator", "</p>", "<p>", "</p>">>)
    /\ result.roles = <<Chars("curator")>>

====
